---- MODULE Spec2Model ----
(***************************************************************************)
(* A model of src/main.py of one_file_search_engine: the record store and  *)
(* its FTS5 index (upsert_site, admin_delete_site, search_sites), the      *)
(* robots.txt cache (fetch_robots, _parse_robots_text,                     *)
(* is_allowed_by_robots), the URL validation (validate_url_for_fetch,      *)
(* host_is_private) and crawl_url.                                         *)
(*                                                                         *)
(* Text is kept as TLA+ strings; TLC evaluates Len, SubSeq, Head, Tail and *)
(* \o on them, so the string functions of the program (lower, strip,       *)
(* split, in, count, startswith) are computed character by character.      *)
(***************************************************************************)
EXTENDS Integers, Sequences, FiniteSets, TLC

(***************************************************************************)
(* Strings                                                                 *)
(***************************************************************************)
UpperLetters == "ABCDEFGHIJKLMNOPQRSTUVWXYZ"
LowerLetters == "abcdefghijklmnopqrstuvwxyz"
Digits == "0123456789"

CharAt(s, i) == SubSeq(s, i, i)

CharsOf(s) == {CharAt(s, i) : i \in 1..Len(s)}

\* the lower-case letter of every upper-case letter
LowerMap == [c \in CharsOf(UpperLetters) |->
                CharAt(LowerLetters, CHOOSE i \in 1..Len(UpperLetters) : CharAt(UpperLetters, i) = c)]

AlnumChars == CharsOf(UpperLetters) \cup CharsOf(LowerLetters) \cup CharsOf(Digits)

\* str.lower() on one character
LowerChar(c) == IF c \in DOMAIN LowerMap THEN LowerMap[c] ELSE c

RECURSIVE Lower(_)
\* str.lower()
Lower(s) ==
    IF s = "" THEN ""
    ELSE IF Len(s) = 1 THEN LowerChar(s)
    ELSE Lower(SubSeq(s, 1, Len(s) \div 2)) \o Lower(SubSeq(s, Len(s) \div 2 + 1, Len(s)))

\* the white space str.strip(), str.split() and \\s take off
IsSpace(c) == c \in {" ", "\t", "\n", "\r"}

IsAlnum(c) == c \in AlnumChars

RECURSIVE LStrip(_)
LStrip(s) == IF s # "" /\ IsSpace(Head(s)) THEN LStrip(Tail(s)) ELSE s

RECURSIVE RStrip(_)
RStrip(s) ==
    IF s # "" /\ IsSpace(CharAt(s, Len(s))) THEN RStrip(SubSeq(s, 1, Len(s) - 1)) ELSE s

\* str.strip()
Strip(s) == RStrip(LStrip(s))

\* str.startswith(p)
StartsWith(s, p) == Len(p) <= Len(s) /\ SubSeq(s, 1, Len(p)) = p

\* str.endswith(p)
EndsWith(s, p) == Len(p) <= Len(s) /\ SubSeq(s, Len(s) - Len(p) + 1, Len(s)) = p

\* Python's  sub in s
Contains(s, sub) == \E i \in 1..(Len(s) - Len(sub) + 1) : SubSeq(s, i, i + Len(sub) - 1) = sub

RECURSIVE Count(_, _)
\* str.count(sub): the number of non-overlapping occurrences, scanning from the left
Count(s, sub) ==
    IF sub = "" THEN Len(s) + 1
    ELSE IF Len(s) < Len(sub) THEN 0
    ELSE IF StartsWith(s, sub) THEN 1 + Count(SubSeq(s, Len(sub) + 1, Len(s)), sub)
    ELSE Count(Tail(s), sub)

\* the characters a run is made of: mode "ws" keeps everything but white space
\* (re.split(r'\s+'), str.split()), mode "line" everything but the line break
\* (str.splitlines()), mode "alnum" letters and digits (the FTS5 tokenizer)
Keep(c, mode) ==
    IF mode = "ws" THEN ~IsSpace(c)
    ELSE IF mode = "line" THEN c # "\n"
    ELSE IsAlnum(c)

RECURSIVE SplitRuns(_, _)
\* the maximal runs of kept characters of s, in order
SplitRuns(s, mode) ==
    LET kept == {i \in 1..Len(s) : Keep(CharAt(s, i), mode)}
        first == CHOOSE i \in kept : \A j \in kept : i <= j
        \* the first place after the run that starts at first
        stop == CHOOSE j \in (first + 1)..(Len(s) + 1) :
                    /\ j = Len(s) + 1 \/ j \notin kept
                    /\ \A m \in first..(j - 1) : m \in kept
    IN  IF kept = {} THEN <<>>
        ELSE <<SubSeq(s, first, stop - 1)>> \o SplitRuns(SubSeq(s, stop, Len(s)), mode)

\* [t for t in re.split(r'\s+', q) if t]
SplitWs(s) == SplitRuns(s, "ws")

Range(f) == {f[i] : i \in DOMAIN f}

Min(a, b) == IF a <= b THEN a ELSE b

\* seq[:n]
Take(seq, n) == SubSeq(seq, 1, Min(n, Len(seq)))

(***************************************************************************)
(* Bounds of the model                                                     *)
(***************************************************************************)
\* rowids of the sites table that the model lets an INSERT allocate
MaxRowId == 3
\* number of upsert_site calls in one behaviour (each reads the clock once)
MaxUpserts == 3

(***************************************************************************)
(* Program constants                                                       *)
(***************************************************************************)
\* search_sites(query, limit=50)
DefaultLimit == 50
\* LIMIT 500 of the degraded-index query
CandidateLimit == 500
\* LIMIT 1000 of the full scan
FullScanLimit == 1000

VARIABLES
    sites,          \* table sites: a set of rows [id, url, title, keywords, description, snippet, crawled_at]
    fts,            \* table sites_fts: rowid -> the set of <<column, token>> the index holds for it
    ftsMode,        \* what the SQLite build gives: "ranked" (FTS5 with bm25), "unranked" (MATCH only), "none"
    now,            \* the clock datetime.utcnow() of upsert_site reads, counted in upserts
    ftsTotals,      \* the totals of sites_fts: [rows, size], the row count and the token
                    \* count per column that bm25 reads
    deleted,        \* history: the rows admin_delete_site has removed from sites
    lastSearch      \* what the last request answered: [q, tier, res] of search_sites when it
                    \* was a search, NoSearch when it was another request

storeVars == <<sites, fts, ftsTotals, ftsMode, now, deleted, lastSearch>>

VARIABLES
    thr,            \* per thread: where it is in crawl_url, and its local variables
    robots_cache,   \* the dict robots_cache: (scheme, host) -> [fetched_at, rules]
    robots_lock,    \* robots_lock: the thread that holds it, 0 when it is free
    clock,          \* time.time()
    returned        \* history: (scheme, host) -> the time the last fetch_robots call
                    \* with these arguments returned

crawlVars == <<thr, robots_cache, robots_lock, clock, returned>>

VARIABLES
    arg,            \* the argument of the function under call, when one function of the
                    \* program is run on its own
    ret             \* [done, val]: whether that function has returned, and its result

callVars == <<arg, ret>>

\* no function is run on its own
NoCall == [done |-> FALSE]

vars == <<sites, fts, ftsTotals, ftsMode, now, deleted, lastSearch,
          thr, robots_cache, robots_lock, clock, returned, arg, ret>>

(***************************************************************************)
(* The record store and the FTS5 index                                     *)
(***************************************************************************)
RowIds == 1..MaxRowId

\* the columns of sites_fts
FtsCols == {"url", "title", "keywords", "description", "snippet"}

\* FTS5's default tokenizer: maximal runs of letters and digits, case-folded
Tokenize(text) == SplitRuns(Lower(text), "alnum")

\* the index terms of one document
DocTokens(doc) == UNION {{<<c, t>> : t \in Range(Tokenize(doc[c]))} : c \in FtsCols}

EmptyFts == [r \in RowIds |-> {}]

\* the columns in the order of the CREATE VIRTUAL TABLE statement
FtsColSeq == <<"url", "title", "keywords", "description", "snippet">>

\* the totals FTS5 keeps for bm25: the number of rows and, per column, the number of
\* tokens it has been given
EmptyTotals == [rows |-> 0, size |-> [c \in FtsCols |-> 0]]

\* an index: tok the terms per rowid (the variable fts), tot the totals (ftsTotals),
\* ok whether the last statement on it went through
MkIndex(tok, tot) == [tok |-> tok, tot |-> tot, ok |-> TRUE]

\* INSERT INTO sites_fts(rowid, url, title, keywords, description, snippet) VALUES (...):
\* the terms of the given values are added under the rowid, their numbers to the totals
FtsInsert(ix, rowid, doc) ==
    [tok |-> [ix.tok EXCEPT ![rowid] = @ \cup DocTokens(doc)],
     tot |-> [rows |-> ix.tot.rows + 1,
              size |-> [c \in FtsCols |-> ix.tot.size[c] + Len(Tokenize(doc[c]))]],
     ok |-> TRUE]

RECURSIVE FtsDeleteCols(_, _, _)
\* sites_fts is an external-content table (content='sites'): the delete of a row takes
\* the row's CURRENT content from sites and, column after column, drops its terms from
\* the rowid and its token count from the totals.  A total that falls below 0, or a
\* row count below 1, ends the statement with SQLITE_CORRUPT (sqlite3.DatabaseError,
\* "database disk image is malformed"); what was done up to there stays in the
\* transaction.
FtsDeleteCols(ix, row, i) ==
    IF i > Len(FtsColSeq)
    THEN IF ix.tot.rows < 1 THEN [ix EXCEPT !.ok = FALSE]
         ELSE [ix EXCEPT !.tot.rows = @ - 1]
    ELSE LET c == FtsColSeq[i]
             terms == Tokenize(row[c])
             next == [ix EXCEPT !.tok[row.id] = {tk \in @ : tk[2] \notin Range(terms)},
                                !.tot.size[c] = @ - Len(terms)]
         IN  IF next.tot.size[c] < 0
             THEN [next EXCEPT !.ok = FALSE, !.tot.rows = @ - 1]
             ELSE FtsDeleteCols(next, row, i + 1)

RECURSIVE FtsDeleteRows(_, _)
\* a DELETE on sites_fts: its rows are found by reading sites, and deleted in rowid
\* order up to the first that fails
FtsDeleteRows(ix, rows) ==
    IF rows = {} THEN ix
    ELSE LET first == CHOOSE r \in rows : \A o \in rows : r.id <= o.id
             d == FtsDeleteCols(ix, first, 1)
         IN  IF d.ok THEN FtsDeleteRows(d, rows \ {first}) ELSE d

\* DELETE FROM sites_fts WHERE rowid=?
FtsDeleteRowid(ix, content, rowid) ==
    FtsDeleteRows(ix, {row \in content : row.id = rowid})

\* DELETE FROM sites_fts WHERE url=?
FtsDeleteUrl(ix, content, url) ==
    FtsDeleteRows(ix, {row \in content : row.url = url})

\* DELETE FROM sites_fts;
FtsDeleteAll(ix, content) == FtsDeleteRows(ix, content)

\* the rowid SQLite gives a new row of an INTEGER PRIMARY KEY table: one more than
\* the largest rowid in the table
NextRowId(content) ==
    IF content = {} THEN 1
    ELSE 1 + (CHOOSE m \in {row.id : row \in content} : \A row \in content : row.id <= m)

RowOfUrl(content, url) == CHOOSE row \in content : row.url = url

MkRow(id, info, ts) ==
    [id |-> id, url |-> info.url, title |-> info.title, keywords |-> info.keywords,
     description |-> info.description, snippet |-> info.snippet, crawled_at |-> ts]

\* the sites table after the INSERT or UPDATE of upsert_site(info) at time ts
upsert_site_rows(content, info, ts) ==
    IF \E row \in content : row.url = info.url
    THEN (content \ {RowOfUrl(content, info.url)})
            \cup {MkRow(RowOfUrl(content, info.url).id, info, ts)}
    ELSE content \cup {MkRow(NextRowId(content), info, ts)}

\* the index after the statements of upsert_site(info) on sites_fts; newContent is the
\* sites table after the INSERT or UPDATE, which both come first.  upsert_site
\* catches sqlite3.OperationalError only: when the DELETE fails (ok is FALSE) the
\* INSERT is not run and the exception leaves upsert_site before db.commit()
upsert_site_fts(ix, content, newContent, info, mode) ==
    IF mode = "none" THEN ix                     \* sqlite3.OperationalError: pass
    ELSE IF \E row \in content : row.url = info.url
    THEN LET rowid == RowOfUrl(content, info.url).id
             d == FtsDeleteRowid(ix, newContent, rowid)
         IN  IF d.ok THEN FtsInsert(d, rowid, info) ELSE d
    ELSE FtsInsert(ix, NextRowId(content), info)

RECURSIVE FtsInsertAll(_, _)
\* one INSERT per row of sites
FtsInsertAll(ix, rows) ==
    IF rows = {} THEN ix
    ELSE LET row == CHOOSE r \in rows : TRUE
         IN  FtsInsertAll(FtsInsert(ix, row.id, row), rows \ {row})

\* the index after rebuild_fts(): DELETE FROM sites_fts, then one INSERT per row of
\* sites.  When the DELETE raises, rebuild_fts returns (False, str(e)) without a
\* commit, and the connection is closed: the index is as it was
rebuild_fts(ix, content, mode) ==
    IF mode = "none" THEN ix
    ELSE LET d == FtsDeleteAll(ix, content)
         IN  IF d.ok THEN FtsInsertAll(d, content) ELSE ix

\* the sites table after admin_delete_site: DELETE FROM sites WHERE url=?
delete_site_rows(content, url) == {row \in content : row.url # url}

\* the index after admin_delete_site; newContent is the sites table after the
\* DELETE FROM sites, which comes first
delete_site_fts(ix, newContent, url, mode) ==
    IF mode = "none" THEN ix                     \* except Exception: pass
    ELSE FtsDeleteUrl(ix, newContent, url)

(***************************************************************************)
(* search_sites                                                            *)
(***************************************************************************)
\* terms = [t for t in re.split(r'\s+', q_raw) if t], q_raw = query.strip()
Terms(query) == SplitWs(Strip(query))

\* t + "*" is an FTS5 prefix query only when t is a bareword: letters and digits,
\* and none of the operators AND, OR, NOT; otherwise MATCH raises
\* sqlite3.OperationalError (fts5: syntax error)
ValidBareword(t) ==
    /\ t # ""
    /\ \A i \in 1..Len(t) : IsAlnum(CharAt(t, i))
    /\ t \notin {"AND", "OR", "NOT"}

FtsQueryOk(terms) == \A i \in DOMAIN terms : ValidBareword(terms[i])

\* sites_fts MATCH 't1* t2* ...': the rowids that have, for every term, a token
\* (in any column) the case-folded term is a prefix of
FtsMatch(f, terms) ==
    {r \in RowIds :
        \A i \in DOMAIN terms : \E tok \in f[r] : StartsWith(tok[2], Lower(terms[i]))}

\* FROM sites_fts JOIN sites s ON s.id = sites_fts.rowid WHERE sites_fts MATCH ?
MatchJoin(f, content, terms) == {row \in content : row.id \in FtsMatch(f, terms)}

RECURSIVE RowsById(_)
\* the rows of a result set in rowid order
RowsById(rows) ==
    IF rows = {} THEN <<>>
    ELSE LET first == CHOOSE r \in rows : \A o \in rows : r.id <= o.id
         IN  <<first>> \o RowsById(rows \ {first})

\* if t in field: score += weight + field.count(t)
FieldScore(field, t, weight) == IF Contains(field, t) THEN weight + Count(field, t) ELSE 0

\* title = (r['title'] or "").lower(), ... : the fields of a record, lower-cased
LowerFields(row) ==
    [title |-> Lower(row.title), keywords |-> Lower(row.keywords),
     description |-> Lower(row.description), snippet |-> Lower(row.snippet),
     url |-> Lower(row.url)]

\* the body of  for t in qtoks: the term is taken as given
TermScore(low, t) ==
      FieldScore(low.title, t, 3)
    + FieldScore(low.keywords, t, 2)
    + FieldScore(low.description, t, 2)
    + FieldScore(low.snippet, t, 1)
    + FieldScore(low.url, t, 1)

RECURSIVE SumTerms(_, _)
SumTerms(low, qtoks) ==
    IF qtoks = <<>> THEN 0
    ELSE TermScore(low, Head(qtoks)) + SumTerms(low, Tail(qtoks))

\* the score the loop over qtoks gives one record
HeuristicScore(row, qtoks) == SumTerms(LowerFields(row), qtoks)

\* key = (-score, crawled_at or ""): a's key is at most b's
KeyLE(a, b) ==
    \/ a.score > b.score
    \/ a.score = b.score /\ a.row.crawled_at <= b.row.crawled_at

\* list.sort is stable: x goes after every element whose key is at most its own
InsertSorted(sorted, x) ==
    LET n == Cardinality({i \in DOMAIN sorted : KeyLE(sorted[i], x)})
    IN  SubSeq(sorted, 1, n) \o <<x>> \o SubSeq(sorted, n + 1, Len(sorted))

RECURSIVE SortCandidates(_)
SortCandidates(cands) ==
    IF cands = <<>> THEN <<>>
    ELSE InsertSorted(SortCandidates(SubSeq(cands, 1, Len(cands) - 1)), cands[Len(cands)])

RECURSIVE ScoreRows(_, _)
\* the (score, r) pairs of the records with score > 0, in the order of the rows
ScoreRows(rows, qtoks) ==
    IF rows = <<>> THEN <<>>
    ELSE LET sc == HeuristicScore(Head(rows), qtoks)
         IN  (IF sc > 0 THEN <<[score |-> sc, row |-> Head(rows)]>> ELSE <<>>)
                \o ScoreRows(Tail(rows), qtoks)

\* one entry of res: an empty title is shown as the url
ToResult(row, score) ==
    [url |-> row.url, title |-> IF row.title = "" THEN row.url ELSE row.title,
     keywords |-> row.keywords, description |-> row.description,
     snippet |-> row.snippet, crawled_at |-> row.crawled_at, score |-> score]

HeuristicResults(rows, qtoks, limit) ==
    LET sorted == Take(SortCandidates(ScoreRows(rows, qtoks)), limit)
    IN  [i \in 1..Len(sorted) |-> ToResult(sorted[i].row, sorted[i].score)]

RECURSIVE LowerAll(_)
\* [t.lower() for t in terms]
LowerAll(terms) == IF terms = <<>> THEN <<>> ELSE <<Lower(Head(terms))>> \o LowerAll(Tail(terms))

\* the orders ORDER BY score ASC can give a set of rows: bm25 is not modelled, so
\* every order is possible
Orders(rows) ==
    {o \in [1..Cardinality(rows) -> rows] : \A i, j \in DOMAIN o : o[i] = o[j] => i = j}

\* the accelerated path, with the rows in the order bm25 gives them.  The score of
\* an entry stands for its bm25 value: only its place in the order is kept.
AcceleratedResults(ordered, limit) ==
    LET rows == Take(ordered, limit)
    IN  [i \in 1..Len(rows) |-> ToResult(rows[i], i)]

\* the degraded-index path: the candidates are scored with qtoks = terms
DegradedResults(f, content, terms, limit) ==
    HeuristicResults(Take(RowsById(MatchJoin(f, content, terms)), CandidateLimit), terms, limit)

\* the full scan: the rows are scored with qtoks = [t.lower() for t in terms]
ScanResults(content, terms, limit) ==
    HeuristicResults(Take(RowsById(content), FullScanLimit), LowerAll(terms), limit)

\* ordered: the rows the first statement returns, when it does not raise
search_sites(query, limit, ordered) ==
    LET terms == Terms(query)
        \* every statement on sites_fts raises sqlite3.OperationalError
        matchRaises == ftsMode = "none" \/ ~FtsQueryOk(terms)
        \* the first statement, which calls bm25(), raises
        firstRaises == matchRaises \/ ftsMode = "unranked"
        accel == AcceleratedResults(ordered, limit)
        degraded == DegradedResults(fts, sites, terms, limit)
        \* bm25() ends in SQLITE_CORRUPT on the first row it is asked for when the row
        \* count of the totals is not positive: sqlite3.DatabaseError, which the
        \* except sqlite3.OperationalError clause does not catch
        firstCorrupt == ~firstRaises /\ ordered # <<>> /\ ftsTotals.rows <= 0
    IN  IF Strip(query) = "" THEN [tier |-> "empty", res |-> <<>>]
        ELSE IF firstCorrupt THEN [tier |-> "error", res |-> <<>>]
        ELSE IF ~firstRaises /\ accel # <<>> THEN [tier |-> "accelerated", res |-> accel]
        ELSE IF firstRaises /\ ~matchRaises /\ degraded # <<>>
             THEN [tier |-> "degraded", res |-> degraded]
        ELSE [tier |-> "scan", res |-> ScanResults(sites, terms, limit)]

\* the answer of a request that is no search
NoSearch == [q |-> "", tier |-> "none", res |-> <<>>]

\* the answer of a request that was no search and has failed
RequestFailed == [q |-> "", tier |-> "failed", res |-> <<>>]

(***************************************************************************)
(* robots.txt: _parse_robots_text                                          *)
(***************************************************************************)
USER_AGENT ==
    "Mozilla/5.0 (compatible; one_file_search_engine_bot/1.0; +https://github.com/xhdndmm/one_file_search_engine)"

\* rules = {'disallow': [], 'delay': 0}
EmptyRules == [disallow |-> <<>>, delay |-> 0]

\* the index of the first c in s, 0 when there is none
FirstIndex(s, c) ==
    IF \E i \in 1..Len(s) : CharAt(s, i) = c
    THEN CHOOSE i \in 1..Len(s) : CharAt(s, i) = c /\ \A j \in 1..(i - 1) : CharAt(s, j) # c
    ELSE 0

\* s.split(c, 1)[0]
SplitHead(s, c) == IF FirstIndex(s, c) = 0 THEN s ELSE SubSeq(s, 1, FirstIndex(s, c) - 1)

\* s.split(c, 1)[1], for an s that holds c
SplitRest(s, c) == SubSeq(s, FirstIndex(s, c) + 1, Len(s))

IsDigits(s) == s # "" /\ \A i \in 1..Len(s) : CharAt(s, i) \in CharsOf(Digits)

RECURSIVE DigitsValue(_)
DigitsValue(s) ==
    IF s = "" THEN 0
    ELSE 10 * DigitsValue(SubSeq(s, 1, Len(s) - 1))
            + (FirstIndex(Digits, CharAt(s, Len(s))) - 1)

\* float(v) for the values the model feeds it: an optional sign and digits give a
\* number, the empty string and words raise ValueError
FloatParses(v) ==
    \/ IsDigits(v)
    \/ Len(v) > 1 /\ Head(v) \in {"-", "+"} /\ IsDigits(Tail(v))

FloatValue(v) ==
    IF Head(v) = "-" THEN 0 - DigitsValue(Tail(v))
    ELSE IF Head(v) = "+" THEN DigitsValue(Tail(v))
    ELSE DigitsValue(v)

Max(a, b) == IF a >= b THEN a ELSE b

\* a == '*' or a.lower() in agent_name.lower()
AgentMatches(a, agent_name) == a = "*" \/ Contains(Lower(agent_name), Lower(a))

RECURSIVE DisallowAppend(_, _, _, _)
\* for a in current_agents: if the agent matches: rules['disallow'].append(v or '/')
DisallowAppend(disallow, agents, v, agent_name) ==
    IF agents = <<>> THEN disallow
    ELSE DisallowAppend(
            IF AgentMatches(Head(agents), agent_name)
            THEN Append(disallow, IF v = "" THEN "/" ELSE v) ELSE disallow,
            Tail(agents), v, agent_name)

\* a Crawl-delay that replaces the delay seen so far
DelayLast(delay, agents, val, agent_name) ==
    IF \E i \in DOMAIN agents : AgentMatches(agents[i], agent_name) THEN val ELSE delay

RECURSIVE DelayMax(_, _, _, _)
\* for a in current_agents: if the agent matches: rules['delay'] = max(rules['delay'], val)
DelayMax(delay, agents, val, agent_name) ==
    IF agents = <<>> THEN delay
    ELSE DelayMax(IF AgentMatches(Head(agents), agent_name) THEN Max(delay, val) ELSE delay,
                  Tail(agents), val, agent_name)

\* one turn of the loop over the lines; st = [agents, rules]
ParseLine(st, raw, agent_name) ==
    LET line == Strip(SplitHead(raw, "#"))
        k == Lower(Strip(SplitHead(line, ":")))
        v == Strip(SplitRest(line, ":"))
    IN  IF line = "" THEN st
        ELSE IF FirstIndex(line, ":") = 0 THEN st
        ELSE IF k = "user-agent" THEN [st EXCEPT !.agents = SplitWs(v)]
        ELSE IF k = "disallow"
             THEN [st EXCEPT !.rules.disallow = DisallowAppend(@, st.agents, v, agent_name)]
        ELSE IF k = "crawl-delay" /\ FloatParses(v)
             THEN [st EXCEPT !.rules.delay = DelayMax(@, st.agents, FloatValue(v), agent_name)]
        ELSE st

RECURSIVE ParseLines(_, _, _)
ParseLines(st, lines, agent_name) ==
    IF lines = <<>> THEN st
    ELSE ParseLines(ParseLine(st, Head(lines), agent_name), Tail(lines), agent_name)

\* txt.splitlines(); the empty lines it also gives are skipped by the loop
SplitLines(txt) == SplitRuns(txt, "line")

_parse_robots_text(txt, agent_name) ==
    ParseLines([agents |-> <<>>, rules |-> EmptyRules], SplitLines(txt), agent_name).rules

\* a matcher that compares whole paths instead of prefixes
DisallowedByExact(path, disallow) ==
    \E i \in DOMAIN disallow : disallow[i] = "/" \/ disallow[i] = path

RECURSIVE DisallowedBy(_, _)
\* the loop of is_allowed_by_robots: TRUE when some entry returns False
DisallowedBy(path, disallow) ==
    IF disallow = <<>> THEN FALSE
    ELSE IF Head(disallow) = "/" THEN TRUE
    ELSE IF StartsWith(path, Head(disallow)) THEN TRUE
    ELSE DisallowedBy(path, Tail(disallow))

\* the allowed part of is_allowed_by_robots(url), given the rules fetch_robots
\* returned; path = p.path or '/'
is_allowed_by_robots(urlPath, rules) ==
    ~DisallowedBy(IF urlPath = "" THEN "/" ELSE urlPath, rules.disallow)

(***************************************************************************)
(* validate_url_for_fetch                                                  *)
(***************************************************************************)
ALLOWED_SCHEMES == {"http", "https"}
DISALLOW_PRIVATE == TRUE

\* ipaddress.ip_address(x) for the literals of the model: the class of the address,
\* "invalid" when it raises ValueError
IpClass(x) ==
    CASE x = "93.184.216.34" -> "public"
      [] x = "10.0.0.1" -> "private"
      [] x = "127.0.0.1" -> "loopback"
      [] x = "240.0.0.1" -> "reserved"
      [] OTHER -> "invalid"

\* ip.is_private or ip.is_loopback or ip.is_reserved
IpIsPrivate(x) == IpClass(x) \in {"private", "loopback", "reserved"}

RECURSIVE AnyPrivate(_)
\* the loop over infos: True at the first private address or the first address that
\* does not parse
AnyPrivate(addrs) ==
    IF addrs = <<>> THEN FALSE
    ELSE IF IpClass(Head(addrs)) = "invalid" THEN TRUE
    ELSE IF IpIsPrivate(Head(addrs)) THEN TRUE
    ELSE AnyPrivate(Tail(addrs))

\* hostname.split(':', 1)[0]
StripPort(hostname) == SplitHead(hostname, ":")

\* host_is_private calls socket.getaddrinfo: the name is no IP literal
NeedsResolution(hostname) == IpClass(StripPort(hostname)) = "invalid"

\* what socket.getaddrinfo gives: it raises, or the addresses of infos in order
DnsRaises == [raised |-> TRUE, addrs |-> <<>>]
DnsGives(addrs) == [raised |-> FALSE, addrs |-> addrs]

\* host_is_private(hostname); answer is what socket.getaddrinfo gives when it is
\* called
host_is_private(hostname, answer) ==
    IF ~NeedsResolution(hostname) THEN IpIsPrivate(StripPort(hostname))
    ELSE IF answer.raised THEN TRUE
    ELSE AnyPrivate(answer.addrs)

MediaExt ==
    {".jpg", ".jpeg", ".png", ".gif", ".bmp", ".webp", ".mp4", ".mp3", ".ogg",
     ".avi", ".mov", ".wmv", ".flv", ".mkv", ".pdf", ".zip", ".rar"}

is_media_url(url) == \E ext \in MediaExt : EndsWith(Lower(url), ext)

\* the scheme test, the first statement of validate_url_for_fetch
SchemeAllowed(url) == url.scheme # "" /\ url.scheme \in ALLOWED_SCHEMES

\* the network I/O of host_is_private: socket.getaddrinfo, unless the name is an
\* IP literal
ResolverIo(hostname) == IF NeedsResolution(hostname) THEN <<"dns">> ELSE <<>>

\* a validation that looks at the host before it looks at the scheme
validate_host_first(url, answer) ==
    IF DISALLOW_PRIVATE /\ url.host # "" /\ host_is_private(url.host, answer)
    THEN [res |-> "PrivateNetworkBlocked", io |-> ResolverIo(url.host)]
    ELSE IF ~SchemeAllowed(url)
    THEN [res |-> "InvalidScheme",
          io |-> IF DISALLOW_PRIVATE /\ url.host # "" THEN ResolverIo(url.host) ELSE <<>>]
    ELSE IF is_media_url(url.path)
    THEN [res |-> "MediaSkipped",
          io |-> IF DISALLOW_PRIVATE /\ url.host # "" THEN ResolverIo(url.host) ELSE <<>>]
    ELSE [res |-> "ok",
          io |-> IF DISALLOW_PRIVATE /\ url.host # "" THEN ResolverIo(url.host) ELSE <<>>]

\* validate_url_for_fetch(url): res is "ok" or the error it raises, io the network
\* I/O it has done.  url is the result of urllib.parse.urlparse: [scheme, host,
\* path]; answer is what the resolver gives if it is asked
validate_url_for_fetch(url, answer) ==
    IF ~SchemeAllowed(url) THEN [res |-> "InvalidScheme", io |-> <<>>]
    ELSE IF DISALLOW_PRIVATE /\ url.host # ""
    THEN IF host_is_private(url.host, answer)
         THEN [res |-> "PrivateNetworkBlocked", io |-> ResolverIo(url.host)]
         ELSE IF is_media_url(url.path)
         THEN [res |-> "MediaSkipped", io |-> ResolverIo(url.host)]
         ELSE [res |-> "ok", io |-> ResolverIo(url.host)]
    ELSE IF is_media_url(url.path) THEN [res |-> "MediaSkipped", io |-> <<>>]
    ELSE [res |-> "ok", io |-> <<>>]

(***************************************************************************)
(* crawl_url and the robots cache                                          *)
(***************************************************************************)
\* the threads of the server (app.run(threaded=True)) that run crawl_url
NumThreads == 2
\* the clock time.time() reads advances in steps of TickStep seconds, up to MaxClock
TickStep == 1800
MaxClock == 3600

\* robots_cache_ttl
ROBOTS_CACHE_TTL == 3600
\* time.sleep(min(delay, 10))
MaxSleep == 10

Threads == 1..NumThreads

MkUrl(scheme, host, path) == [scheme |-> scheme, host |-> host, path |-> path]

\* what urllib.request.urlopen(req) of the page has done: kind is "response" when it
\* gave a response (ctype its Content-Type header, "" when it has none), else the
\* exception it raised; conn the addresses it has connected to, in order
MkPage(kind, ctype, conn) == [kind |-> kind, ctype |-> ctype, conn |-> conn]

\* the page has not been asked for
NoPage == MkPage("none", "", <<>>)

\* a thread that is not in crawl_url.  pc is the statement it is at; url, key, tnow
\* (the local now of fetch_robots), rules, slept are the locals; the other fields
\* record what the call has done: io the network I/O in order, answer what the
\* resolver gave the validation, txt the robots.txt body a fetch got, failed that
\* the last robots fetch failed, fresh/expired whether a call of fetch_robots with
\* the same arguments had returned less than / at least the TTL before this one
\* was made, res the result of crawl_url
IdleThread ==
    [pc |-> "idle", url |-> MkUrl("", "", ""), key |-> <<"", "">>, tnow |-> 0,
     rules |-> EmptyRules, failed |-> FALSE, txt |-> "", io |-> <<>>, slept |-> 0,
     answer |-> DnsGives(<<>>), fresh |-> FALSE, expired |-> FALSE, res |-> "",
     page |-> NoPage]

\* what socket.getaddrinfo can give for a name: it raises, or one or two addresses
DnsAddresses == {"93.184.216.34", "10.0.0.1", "fe80::1%eth0"}

DnsAnswers(hostname) ==
    IF StripPort(hostname) = "" THEN {DnsRaises}
    ELSE {DnsRaises} \cup {DnsGives(<<a>>) : a \in DnsAddresses}
                     \cup {DnsGives(<<a, b>>) : a \in DnsAddresses, b \in DnsAddresses}

\* the state at start-up: an empty store, an empty robots cache, no crawl running
CrawlInit ==
    /\ sites = {}
    /\ fts = EmptyFts
    /\ ftsTotals = EmptyTotals
    /\ ftsMode = "ranked"
    /\ now = 0
    /\ deleted = {}
    /\ lastSearch = NoSearch
    /\ thr = [t \in Threads |-> IdleThread]
    /\ robots_cache = <<>>
    /\ robots_lock = 0
    /\ clock = 0
    /\ returned = <<>>
    /\ arg = <<>>
    /\ ret = NoCall

\* dict assignment d[k] = v
DictPut(d, k, v) == [x \in DOMAIN d \cup {k} |-> IF x = k THEN v ELSE d[x]]

\* entry and now - entry['fetched_at'] < ROBOTS_CACHE_TTL
CacheHit(cache, key, tnow) ==
    key \in DOMAIN cache /\ tnow - cache[key].fetched_at < ROBOTS_CACHE_TTL

\* the arguments of the fetch_robots call of is_allowed_by_robots
RobotsKey(url) == <<IF url.scheme = "" THEN "https" ELSE url.scheme, url.host>>

\* a request handler calls crawl_url(url)
CrawlStart(t, url) ==
    /\ thr[t].pc = "idle"
    /\ thr' = [thr EXCEPT ![t] = [IdleThread EXCEPT !.pc = "validate", !.url = url]]
    /\ UNCHANGED <<robots_cache, robots_lock, clock, returned>>
    /\ UNCHANGED storeVars
    /\ UNCHANGED callVars

\* the answers of the resolver to a crawl of url, should validation ask it
ResolverAnswers(url) ==
    IF url.host # "" /\ NeedsResolution(url.host) THEN DnsAnswers(url.host)
    ELSE {DnsGives(<<>>)}

\* validate_url_for_fetch(url), then the start of fetch_robots: key and now
Validate(t) ==
    /\ thr[t].pc = "validate"
    /\ \E answer \in ResolverAnswers(thr[t].url) :
        LET url == thr[t].url
            v == validate_url_for_fetch(url, answer)
            key == RobotsKey(url)
        IN  thr' = [thr EXCEPT ![t] =
                IF v.res # "ok"
                THEN [@ EXCEPT !.pc = "done", !.res = v.res, !.io = v.io, !.answer = answer]
                ELSE [@ EXCEPT !.pc = "fr_acquire", !.io = v.io, !.answer = answer,
                               !.key = key, !.tnow = clock,
                               !.fresh = key \in DOMAIN returned
                                          /\ clock - returned[key] < ROBOTS_CACHE_TTL,
                               !.expired = key \in DOMAIN returned
                                          /\ clock - returned[key] >= ROBOTS_CACHE_TTL]]
    /\ UNCHANGED <<robots_cache, robots_lock, clock, returned>>
    /\ UNCHANGED storeVars
    /\ UNCHANGED callVars

\* with robots_lock: (either block of fetch_robots)
FrAcquire(t) ==
    /\ thr[t].pc \in {"fr_acquire", "fr_acquire2"}
    /\ robots_lock = 0
    /\ robots_lock' = t
    /\ thr' = [thr EXCEPT ![t].pc = IF @ = "fr_acquire" THEN "fr_check" ELSE "fr_write"]
    /\ UNCHANGED <<robots_cache, clock, returned>>
    /\ UNCHANGED storeVars
    /\ UNCHANGED callVars

\* entry = robots_cache.get(key); a fresh entry is returned, and the lock released
FrCheck(t) ==
    /\ thr[t].pc = "fr_check"
    /\ robots_lock' = 0
    /\ IF CacheHit(robots_cache, thr[t].key, thr[t].tnow)
       THEN /\ thr' = [thr EXCEPT ![t].pc = "allow",
                                  ![t].rules = robots_cache[thr[t].key].rules]
            /\ returned' = DictPut(returned, RobotsKey(thr[t].url), clock)
       ELSE /\ thr' = [thr EXCEPT ![t].pc = "fr_fetch"]
            /\ UNCHANGED returned
    /\ UNCHANGED <<robots_cache, clock>>
    /\ UNCHANGED storeVars
    /\ UNCHANGED callVars

\* a fetch_robots that denies everything when the fetch raises
FetchFailedDenyAll == [disallow |-> <<"/">>, delay |-> 0]

\* the rules fetch_robots is left with when the fetch raises
FetchFailedRules == EmptyRules

\* urllib.request.urlopen(robots_url): a body that is parsed, or an exception; with
\* scheme https the exception makes fetch_robots return fetch_robots(host, 'http')
FrFetch(t, texts) ==
    /\ thr[t].pc = "fr_fetch"
    /\ \E got \in (IF thr[t].key[2] = "" THEN {} ELSE texts) \cup {"fail"} :
        LET io == Append(thr[t].io, "robots:" \o thr[t].key[1])
        IN  thr' = [thr EXCEPT ![t] =
                IF got # "fail"
                THEN [@ EXCEPT !.pc = "fr_acquire2", !.io = io, !.txt = got,
                               !.failed = FALSE,
                               !.rules = _parse_robots_text(got, USER_AGENT)]
                ELSE IF thr[t].key[1] = "https"
                THEN [@ EXCEPT !.pc = "fr_acquire", !.io = io,
                               !.key = <<"http", thr[t].key[2]>>, !.tnow = clock]
                ELSE [@ EXCEPT !.pc = "fr_acquire2", !.io = io, !.txt = "",
                               !.failed = TRUE, !.rules = FetchFailedRules]]
    /\ UNCHANGED <<robots_cache, robots_lock, clock, returned>>
    /\ UNCHANGED storeVars
    /\ UNCHANGED callVars

\* robots_cache[key] = {'fetched_at': now, 'rules': rules}; return rules
FrWrite(t) ==
    /\ thr[t].pc = "fr_write"
    /\ robots_lock' = 0
    /\ robots_cache' = DictPut(robots_cache, thr[t].key,
                               [fetched_at |-> thr[t].tnow, rules |-> thr[t].rules])
    /\ returned' = DictPut(returned, RobotsKey(thr[t].url), clock)
    /\ thr' = [thr EXCEPT ![t].pc = "allow"]
    /\ UNCHANGED clock
    /\ UNCHANGED storeVars
    /\ UNCHANGED callVars

\* a sleep of the whole requested delay
SleepTimeUncapped(delay) == delay

\* the argument of time.sleep
SleepTime(delay) == Min(delay, MaxSleep)

\* the rest of is_allowed_by_robots, and the test of the delay in crawl_url
Allow(t) ==
    /\ thr[t].pc = "allow"
    /\ thr' = [thr EXCEPT ![t] =
            IF ~is_allowed_by_robots(thr[t].url.path, thr[t].rules)
            THEN [@ EXCEPT !.pc = "done", !.res = "RobotsDisallowed"]
            ELSE IF thr[t].rules.delay > 0 THEN [@ EXCEPT !.pc = "sleep"]
            ELSE [@ EXCEPT !.pc = "get"]]
    /\ UNCHANGED <<robots_cache, robots_lock, clock, returned>>
    /\ UNCHANGED storeVars
    /\ UNCHANGED callVars

\* time.sleep(min(delay, 10))
Sleep(t) ==
    /\ thr[t].pc = "sleep"
    /\ thr' = [thr EXCEPT ![t].pc = "get", ![t].slept = SleepTime(thr[t].rules.delay)]
    /\ UNCHANGED <<robots_cache, robots_lock, clock, returned>>
    /\ UNCHANGED storeVars
    /\ UNCHANGED callVars

\* what the network can do to the page GET of url.  env = [kind, ctype, addr,
\* redirect]: addr is the address the resolver gives urlopen for a host name (urlopen
\* resolves the name itself, whatever validate_url_for_fetch was told), redirect
\* the address of the host a 30x answer sends urlopen on to ("" when there is none:
\* urlopen follows redirects by itself)
GetOutcomes(url, envs) ==
    IF url.host = "" THEN {MkPage("URLError", "", <<>>)}
    ELSE {MkPage(e.kind, e.ctype,
                 <<IF NeedsResolution(url.host) THEN e.addr ELSE StripPort(url.host)>>
                    \o (IF e.redirect = "" THEN <<>> ELSE <<e.redirect>>)) : e \in envs}

\* the try block of crawl_url and its except clauses: what crawl_url raises, "ok" when
\* it goes on to the extraction.  The two ValueErrors of the content-type test are
\* raised inside the try block, so the last clause, except Exception, catches them
\* and raises ValueError("抓取失败: ...") in their place
FetchResult(page) ==
    LET raised == IF page.kind = "response"
                  THEN IF page.ctype = "" THEN "ValueError"
                       ELSE IF ~Contains(page.ctype, "text/html") THEN "ValueError"
                       ELSE "none"
                  ELSE page.kind
    IN  IF raised = "none" THEN "ok"
        ELSE IF raised = "HTTPError" THEN "HttpStatusError"
        ELSE IF raised = "URLError" THEN "FetchTransportError"
        ELSE IF raised = "timeout" THEN "FetchTimeout"
        ELSE "FetchFailed"

\* the page GET of crawl_url
Get(t, envs) ==
    /\ thr[t].pc = "get"
    /\ \E page \in GetOutcomes(thr[t].url, envs) :
        thr' = [thr EXCEPT ![t].pc = "done", ![t].res = FetchResult(page),
                           ![t].page = page, ![t].io = Append(@, "get")]
    /\ UNCHANGED <<robots_cache, robots_lock, clock, returned>>
    /\ UNCHANGED storeVars
    /\ UNCHANGED callVars

\* crawl_url returns or raises to its caller
Return(t) ==
    /\ thr[t].pc = "done"
    /\ thr' = [thr EXCEPT ![t] = IdleThread]
    /\ UNCHANGED <<robots_cache, robots_lock, clock, returned>>
    /\ UNCHANGED storeVars
    /\ UNCHANGED callVars

\* time passes between two requests: TickStep is far longer than a call of
\* crawl_url, whose fetches time out after seconds
Tick ==
    /\ \A t \in Threads : thr[t].pc = "idle"
    /\ clock + TickStep <= MaxClock
    /\ clock' = clock + TickStep
    /\ UNCHANGED <<thr, robots_cache, robots_lock, returned>>
    /\ UNCHANGED storeVars
    /\ UNCHANGED callVars

(***************************************************************************)
(* Inputs of the store operations                                          *)
(***************************************************************************)
Url1 == "http://a.io/"
Url2 == "http://b.io/cd"
Urls == {Url1, Url2}

MkInfo(u, t, k, d, sn) ==
    [url |-> u, title |-> t, keywords |-> k, description |-> d, snippet |-> sn]

\* what crawl_url can hand to upsert_site: two pages per URL that differ in
\* every derived field
Infos ==
    { MkInfo(Url1, "ab ef", "kw", "", "ab ab"),
      MkInfo(Url1, "Gh", "", "ef", "x"),
      MkInfo(Url2, "", "ef", "Ab", ""),
      MkInfo(Url2, "gh ab", "", "", "ef") }

Queries == {"ab", "Ab", "ef gh", "Ab ef", "  ", "a.io", "io", "kw"}

\* the state after init_db(), with whatever FTS5 support the SQLite build has;
\* no crawl is running and the robots cache is empty
StoreInit ==
    /\ sites = {}
    /\ fts = EmptyFts
    /\ ftsTotals = EmptyTotals
    /\ ftsMode \in {"ranked", "unranked", "none"}
    /\ now = 0
    /\ deleted = {}
    /\ lastSearch = NoSearch
    /\ thr = [t \in 1..NumThreads |-> IdleThread]
    /\ robots_cache = <<>>
    /\ robots_lock = 0
    /\ clock = 0
    /\ returned = <<>>
    /\ arg = <<>>
    /\ ret = NoCall

\* the request handlers that call upsert_site
Callers == {"submit", "admin_recrawl"}

\* upsert_site(info), called by submit or admin_recrawl: now = datetime.utcnow() is
\* read once, at the start.  When upsert_site raises, submit answers 500 and the
\* connection is closed without a commit, so nothing of the call stays; admin_recrawl
\* logs the error and commits, which keeps what upsert_site had done
Upsert(info, caller) ==
    /\ now < MaxUpserts
    /\ (\E row \in sites : row.url = info.url) \/ NextRowId(sites) <= MaxRowId
    /\ now' = now + 1
    /\ LET rows == upsert_site_rows(sites, info, now')
           ix == upsert_site_fts(MkIndex(fts, ftsTotals), sites, rows, info, ftsMode)
       IN  IF ix.ok
           THEN /\ sites' = rows
                /\ fts' = ix.tok
                /\ ftsTotals' = ix.tot
                /\ lastSearch' = NoSearch
           ELSE /\ sites' = IF caller = "submit" THEN sites ELSE rows
                /\ fts' = IF caller = "submit" THEN fts ELSE ix.tok
                /\ ftsTotals' = IF caller = "submit" THEN ftsTotals ELSE ix.tot
                /\ lastSearch' = RequestFailed
    /\ UNCHANGED <<ftsMode, deleted>>
    /\ UNCHANGED crawlVars
    /\ UNCHANGED callVars

\* admin_delete_site with the form field url
DeleteSite(url) ==
    /\ sites' = delete_site_rows(sites, url)
    /\ LET ix == delete_site_fts(MkIndex(fts, ftsTotals), sites', url, ftsMode)
       IN  /\ fts' = ix.tok
           /\ ftsTotals' = ix.tot
    /\ deleted' = deleted \cup {row \in sites : row.url = url}
    /\ lastSearch' = NoSearch
    /\ UNCHANGED <<ftsMode, now>>
    /\ UNCHANGED crawlVars
    /\ UNCHANGED callVars

\* admin_reindex
Reindex ==
    /\ LET ix == rebuild_fts(MkIndex(fts, ftsTotals), sites, ftsMode)
       IN  /\ fts' = ix.tok
           /\ ftsTotals' = ix.tot
    /\ lastSearch' = NoSearch
    /\ UNCHANGED <<sites, ftsMode, now, deleted>>
    /\ UNCHANGED crawlVars
    /\ UNCHANGED callVars

\* index(): results = search_sites(q)
Search(q) ==
    /\ \E ordered \in Orders(MatchJoin(fts, sites, Terms(q))) :
          lastSearch' = [q |-> q] @@ search_sites(q, DefaultLimit, ordered)
    /\ UNCHANGED <<sites, fts, ftsTotals, ftsMode, now, deleted>>
    /\ UNCHANGED crawlVars
    /\ UNCHANGED callVars

StoreNext ==
    \/ \E info \in Infos : \E caller \in Callers : Upsert(info, caller)
    \/ \E url \in Urls : DeleteSite(url)
    \/ Reindex
    \/ \E q \in Queries : Search(q)

(***************************************************************************)
(* Inputs of crawl_url, and the specifications                             *)
(***************************************************************************)
PublicIp == "93.184.216.34"

\* robots.txt bodies
PrivateTxt == "User-agent: *\nDisallow: /private"
DelayTxt == "User-agent: *\nCrawl-delay: 2"
SlowTxt == "User-Agent: zz Bot # all bots\nCrawl-delay: 15\nDisallow: /pub"

\* the URLs of the specification of the robots cache: one host, both schemes
RobotsUrls == {MkUrl("https", PublicIp, "/x"), MkUrl("http", PublicIp, "/x")}
RobotsTexts == {DelayTxt}

\* the URLs of the specification of one crawl
CrawlUrls ==
    {MkUrl(sch, h, pa) : sch \in {"http", "https", "ftp", ""},
                         h \in {"", "a.io", "10.0.0.1", "::1"},
                         pa \in {"/private/x", "/public/x", "", "/a.png"}}
CrawlTexts == {PrivateTxt, DelayTxt, SlowTxt}

\* what the network does to the page GET in the specifications that are not about it
MkEnv(kind, ctype, addr, redirect) ==
    [kind |-> kind, ctype |-> ctype, addr |-> addr, redirect |-> redirect]

HtmlType == "text/html; charset=utf-8"

CrawlEnvs ==
    {MkEnv("response", HtmlType, PublicIp, ""), MkEnv("HTTPError", "", PublicIp, ""),
     MkEnv("URLError", "", PublicIp, "")}

CrawlNext(threads, urls, texts, envs) ==
    \E t \in threads :
        \/ \E url \in urls : CrawlStart(t, url)
        \/ Validate(t)
        \/ FrAcquire(t)
        \/ FrCheck(t)
        \/ FrFetch(t, texts)
        \/ FrWrite(t)
        \/ Allow(t)
        \/ Sleep(t)
        \/ Get(t, envs)
        \/ Return(t)

\* the record store and the search, with no crawl running
SpecStore == StoreInit /\ [][StoreNext]_vars

RaceNext == CrawlNext(Threads, RobotsUrls, RobotsTexts, CrawlEnvs)

\* concurrent crawls of one host
SpecRace == CrawlInit /\ [][RaceNext]_vars

CacheNext == CrawlNext({1}, RobotsUrls, RobotsTexts, CrawlEnvs) \/ Tick

\* crawls of one host, one after the other, with time passing
SpecCache == CrawlInit /\ [][CacheNext]_vars

OneCrawlNext == CrawlNext({1}, CrawlUrls, CrawlTexts, CrawlEnvs)

\* crawls of every kind of URL, one at a time
SpecCrawl == CrawlInit /\ [][OneCrawlNext]_vars

\* the page GET: the URLs, and everything the network can do to the GET
FetchUrls ==
    {MkUrl("http", "a.io", "/public/x"), MkUrl("https", PublicIp, "/x"),
     MkUrl("http", "a.io", "/a.png")}

ContentTypes == {"", "image/png", HtmlType, "application/xhtml+xml"}

FetchEnvs ==
    {MkEnv("response", ct, a, r) :
        ct \in ContentTypes, a \in {PublicIp, "10.0.0.1"}, r \in {"", "127.0.0.1"}}
    \cup {MkEnv(k, "", a, "") : k \in {"HTTPError", "URLError", "timeout", "other"},
                                a \in {PublicIp, "10.0.0.1"}}

FetchNext == CrawlNext({1}, FetchUrls, RobotsTexts, FetchEnvs)

\* crawls seen from the page GET
SpecFetch == CrawlInit /\ [][FetchNext]_vars

Spec == SpecStore

(***************************************************************************)
(* The record store and its index                                          *)
(***************************************************************************)
\* C1: after any sequence of upserts and deletes, every rowid the index holds terms
\* for is the id of exactly one record of sites: no index entry outlives its record.
C1_NoOrphanIndexEntries ==
    \A r \in RowIds : fts[r] # {} => Cardinality({row \in sites : row.id = r}) = 1

SameFields(row, info) ==
    /\ row.url = info.url
    /\ row.title = info.title
    /\ row.keywords = info.keywords
    /\ row.description = info.description
    /\ row.snippet = info.snippet

\* C2: an upsert of a URL that is already stored, with other field values, leaves
\* exactly one record under the URL, which holds the values and the time of this
\* upsert, and the index holds for that record the terms of these values only.
C2_UpsertReplacesRecordAndIndex ==
    [][\A info \in Infos :
         ((\E caller \in Callers : Upsert(info, caller))
          /\ \E old \in sites : old.url = info.url /\ ~SameFields(old, info))
         => /\ Cardinality({row \in sites' : row.url = info.url}) = 1
            /\ \A row \in sites' :
                 row.url = info.url =>
                   /\ SameFields(row, info)
                   /\ row.crawled_at = now'
                   /\ ftsMode # "none" => fts'[row.id] = DocTokens(info)]_vars

\* the term occurs in some field of the record, whatever the case of the letters
OccursIn(t, row) == \E c \in FtsCols : Contains(Lower(row[c]), Lower(t))

\* C3: a search whose terms all occurred in a record that was deleted, and occur in
\* no record of the store, returns no matches, whatever was upserted since.
C3_DeletedRecordNotFound ==
    LET terms == Terms(lastSearch.q)
    IN  (/\ lastSearch.tier # "none"
         /\ terms # <<>>
         /\ \E d \in deleted : \A i \in DOMAIN terms : OccursIn(terms[i], d)
         /\ \A i \in DOMAIN terms : \A row \in sites : ~OccursIn(terms[i], row))
        => lastSearch.res = <<>>

(***************************************************************************)
(* The robots cache                                                        *)
(***************************************************************************)
\* the thread has missed the cache and has not yet written the refreshed entry
InRefresh(t) == thr[t].pc \in {"fr_fetch", "fr_acquire2", "fr_write"}

\* C4: the read, freshness check, refresh and write of the robots cache are mutually
\* exclusive: while a thread is between its miss and its write, no other thread
\* reads the cache, and no two threads refresh the entry of the same key at once.
C4_RefreshIsExclusive ==
    \A t1 \in Threads : \A t2 \in Threads \ {t1} :
        InRefresh(t1) =>
            /\ thr[t2].pc # "fr_check"
            /\ InRefresh(t2) => thr[t1].key # thr[t2].key

\* the last element of a sequence, "" when there is none
Last(seq) == IF seq = <<>> THEN "" ELSE seq[Len(seq)]

\* C5: when the fetch of robots.txt fails (for http, or for https and then http),
\* the call does not fail: it is left with the empty policy, caches the empty policy,
\* and the crawl goes on to the page fetch without a delay.
C5_FailedFetchGivesEmptyPolicy ==
    \A t \in Threads :
        thr[t].failed =>
            /\ thr[t].rules = EmptyRules
            /\ thr[t].pc \in {"fr_acquire2", "fr_write", "allow", "get", "done"}
            /\ thr[t].pc \in {"allow", "get", "done"} =>
                   /\ thr[t].key \in DOMAIN robots_cache
                   /\ robots_cache[thr[t].key].rules = EmptyRules
            /\ thr[t].pc = "done" =>
                   /\ Last(thr[t].io) = "get"
                   /\ thr[t].res # "RobotsDisallowed"
                   /\ thr[t].slept = 0

C5_Witness ==
    \E t \in Threads :
        /\ thr[t].failed
        /\ thr[t].pc = "done"
        /\ thr[t].url.scheme = "https"
        /\ thr[t].url.host = "a.io"
        /\ thr[t].io = <<"dns", "robots:https", "robots:http", "get">>

\* the call has fetched a robots.txt from the network
FetchedRobots(t) ==
    \E i \in DOMAIN thr[t].io : thr[t].io[i] \in {"robots:https", "robots:http"}

\* C6: a call of fetch_robots made less than the TTL after a call with the same
\* scheme and host returned, whether that one fetched or failed, fetches nothing;
\* a call made at least the TTL after it fetches again.
C6_CachedForTtl ==
    \A t \in Threads :
        /\ thr[t].fresh => ~FetchedRobots(t)
        /\ (thr[t].expired /\ thr[t].pc \in {"allow", "sleep", "get", "done"})
               => FetchedRobots(t)

(***************************************************************************)
(* crawl_url                                                               *)
(***************************************************************************)
\* the host of the URL is known and every address it stands for is public
HostIsPublic(url, answer) ==
    /\ url.host # ""
    /\ IF NeedsResolution(url.host)
       THEN /\ ~answer.raised
            /\ answer.addrs # <<>>
            /\ \A i \in DOMAIN answer.addrs : ~IpIsPrivate(answer.addrs[i])
       ELSE ~IpIsPrivate(StripPort(url.host))

\* C7: with the private-network validation on, a URL of an allowed scheme goes past
\* the validation only if its host is known and public; in every other case, an
\* undetermined host included, the crawl ends in PrivateNetworkBlocked and has
\* fetched nothing.
C7_PrivateHostsBlocked ==
    \A t \in Threads :
        (thr[t].pc \notin {"idle", "validate"} /\ SchemeAllowed(thr[t].url)
         /\ ~HostIsPublic(thr[t].url, thr[t].answer))
        => /\ thr[t].pc = "done"
           /\ thr[t].res = "PrivateNetworkBlocked"
           /\ ~FetchedRobots(t)
           /\ Last(thr[t].io) # "get"

\* C8: a URL whose scheme is not allowed ends in InvalidScheme, and the crawl has
\* done no network I/O: no name resolution, no robots fetch, no page fetch.
C8_InvalidSchemeWithoutIo ==
    \A t \in Threads :
        (thr[t].pc # "idle" /\ ~SchemeAllowed(thr[t].url))
        => /\ thr[t].io = <<>>
           /\ thr[t].pc \in {"validate", "done"}
           /\ thr[t].pc = "done" => thr[t].res = "InvalidScheme"

C8_Witness ==
    \E t \in Threads :
        /\ thr[t].pc = "done"
        /\ thr[t].url = MkUrl("ftp", "a.io", "/public/x")
        /\ thr[t].res = "InvalidScheme"

\* C9: when the page fetch starts, the crawl has slept min(d, 10) seconds if the
\* policy has a crawl delay d > 0, and has not slept at all if the delay is 0.
C9_PolitenessDelay ==
    \A t \in Threads :
        /\ (thr[t].pc = "get" \/ Last(thr[t].io) = "get") =>
               thr[t].slept = IF thr[t].rules.delay > 0
                              THEN (IF thr[t].rules.delay < 10 THEN thr[t].rules.delay ELSE 10)
                              ELSE 0
        /\ thr[t].pc \notin {"get", "done", "idle"} => thr[t].slept = 0

C9_Witness ==
    \E t \in Threads :
        /\ thr[t].pc = "get"
        /\ thr[t].rules.delay = 15
        /\ thr[t].slept = 10

\* C10: a path is refused exactly when some disallow prefix of the policy is "/" or
\* is a string prefix of the path ("/" standing for the empty path); with
\* "Disallow: /private", /private/x is refused and /public/x is fetched.
C10_DisallowByPrefix ==
    \A t \in Threads :
        thr[t].pc \in {"sleep", "get", "done"} =>
            LET path == IF thr[t].url.path = "" THEN "/" ELSE thr[t].url.path
                dis == thr[t].rules.disallow
            IN  /\ thr[t].res = "RobotsDisallowed" <=>
                       \E i \in DOMAIN dis :
                           \/ dis[i] = "/"
                           \/ /\ Len(dis[i]) <= Len(path)
                              /\ SubSeq(path, 1, Len(dis[i])) = dis[i]
                /\ thr[t].txt = PrivateTxt =>
                       /\ thr[t].rules.disallow = <<"/private">>
                       /\ thr[t].url.path = "/private/x" => thr[t].res = "RobotsDisallowed"
                       /\ thr[t].url.path = "/public/x" => thr[t].res # "RobotsDisallowed"

C10_Witness ==
    \E t \in Threads :
        /\ thr[t].pc = "done"
        /\ thr[t].txt = PrivateTxt
        /\ thr[t].url.path = "/private/x"
        /\ thr[t].res = "RobotsDisallowed"
        /\ FetchedRobots(t)
        /\ Last(thr[t].io) # "get"

(***************************************************************************)
(* _parse_robots_text on its own                                           *)
(***************************************************************************)
\* the groups of one robots.txt
MaxGroups == 2

\* the User-agent lines of the inputs, with whether the group is one for USER_AGENT
\* ("bot" is part of it, "zz" is not)
GroupAgents ==
    { [agents |-> "*", match |-> TRUE],
      [agents |-> "zz", match |-> FALSE],
      [agents |-> "zz BOT", match |-> TRUE] }

\* the lines that follow them, with the value float() gives when it gives one
GroupLines ==
    { [line |-> "Crawl-delay: 2", has |-> TRUE, val |-> 2],
      [line |-> "crawl-delay : 5 # slow", has |-> TRUE, val |-> 5],
      [line |-> "Crawl-delay: -3", has |-> TRUE, val |-> 0 - 3],
      [line |-> "Crawl-delay: soon", has |-> FALSE, val |-> 0],
      [line |-> "Disallow: /a", has |-> FALSE, val |-> 0] }

Groups ==
    {[agents |-> a.agents, match |-> a.match, line |-> l.line, has |-> l.has, val |-> l.val] :
        a \in GroupAgents, l \in GroupLines}

GroupSeqs == UNION {[1..n -> Groups] : n \in 0..MaxGroups}

RECURSIVE RenderGroups(_)
\* the robots.txt body that holds the groups, in order
RenderGroups(groups) ==
    IF groups = <<>> THEN ""
    ELSE "User-agent: " \o Head(groups).agents \o "\n" \o Head(groups).line \o "\n"
         \o RenderGroups(Tail(groups))

Reverse(seq) == [i \in 1..Len(seq) |-> seq[Len(seq) + 1 - i]]

\* a robots.txt body is about to be parsed
ParseInit ==
    /\ sites = {}
    /\ fts = EmptyFts
    /\ ftsTotals = EmptyTotals
    /\ ftsMode = "ranked"
    /\ now = 0
    /\ deleted = {}
    /\ lastSearch = NoSearch
    /\ thr = [t \in Threads |-> IdleThread]
    /\ robots_cache = <<>>
    /\ robots_lock = 0
    /\ clock = 0
    /\ returned = <<>>
    /\ arg \in {[groups |-> g, txt |-> RenderGroups(g)] : g \in GroupSeqs}
    /\ ret = NoCall

\* rules = _parse_robots_text(raw, USER_AGENT)
ParseRobots ==
    /\ ~ret.done
    /\ ret' = [done |-> TRUE, val |-> _parse_robots_text(arg.txt, USER_AGENT)]
    /\ UNCHANGED arg
    /\ UNCHANGED storeVars
    /\ UNCHANGED crawlVars

ParseNext == ParseRobots

SpecParse == ParseInit /\ [][ParseNext]_vars

\* C11: the delay of the parsed policy is the greatest Crawl-delay value of the groups
\* that match the agent, whatever the order of the groups; it is 0 when no matching
\* group has a value, never negative, and values of groups that do not match and
\* values that do not parse leave it alone.
C11_DelayIsMaxOfMatchingGroups ==
    ret.done =>
        LET vals == {arg.groups[i].val : i \in {j \in DOMAIN arg.groups :
                                          arg.groups[j].match /\ arg.groups[j].has}}
        IN  /\ ret.val.delay >= 0
            /\ \A v \in vals : ret.val.delay >= v
            /\ ret.val.delay \in vals \cup {0}
            /\ ret.val.delay =
                   _parse_robots_text(RenderGroups(Reverse(arg.groups)), USER_AGENT).delay

C11_Witness ==
    /\ ret.done
    /\ Len(arg.groups) = 2
    /\ arg.groups[1].match /\ arg.groups[1].val = 5
    /\ arg.groups[2].match /\ arg.groups[2].val = 2
    /\ arg.groups[1].agents # arg.groups[2].agents
    /\ ret.val.delay = 5

(***************************************************************************)
(* The heuristic scorer                                                    *)
(***************************************************************************)
\* the points of one field for one term: the weight of the field, and 1 for every
\* occurrence after the first
WeightedOccurrences(field, t, weight) ==
    IF Contains(field, t) THEN weight + (Count(field, t) - 1) ELSE 0

RECURSIVE WeightedScore(_, _)
\* the sum of these points over the terms and the fields title (3), keywords (2),
\* description (2), snippet (1), url (1)
WeightedScore(low, qtoks) ==
    IF qtoks = <<>> THEN 0
    ELSE   WeightedOccurrences(low.title, Head(qtoks), 3)
         + WeightedOccurrences(low.keywords, Head(qtoks), 2)
         + WeightedOccurrences(low.description, Head(qtoks), 2)
         + WeightedOccurrences(low.snippet, Head(qtoks), 1)
         + WeightedOccurrences(low.url, Head(qtoks), 1)
         + WeightedScore(low, Tail(qtoks))

\* the record of the store an entry of the results shows
RowOfResult(entry) == CHOOSE row \in sites : row.url = entry.url

\* C12: in the heuristic paths the score of a result is, summed over the query terms
\* and the fields that contain the term, the weight of the field plus 1 per
\* occurrence beyond the first (so one occurrence in the title alone scores 3), and
\* exactly the records whose score is not 0 are in the results.
C12_WeightPlusExtraOccurrences ==
    lastSearch.tier \in {"degraded", "scan"} =>
        LET qtoks == LowerAll(Terms(lastSearch.q))
            res == lastSearch.res
        IN  /\ \A i \in DOMAIN res :
                  /\ res[i].score = WeightedScore(LowerFields(RowOfResult(res[i])), qtoks)
                  /\ res[i].score > 0
            /\ lastSearch.tier = "scan" =>
                  \A row \in sites :
                      WeightedScore(LowerFields(row), qtoks) > 0
                          => \E i \in DOMAIN res : res[i].url = row.url

\* C13: the results of the heuristic paths are in descending order of score, and
\* results of equal score in descending order of crawl time: the most recently
\* crawled record first.
C13_TiesMostRecentFirst ==
    lastSearch.tier \in {"degraded", "scan"} =>
        \A i \in DOMAIN lastSearch.res : \A j \in DOMAIN lastSearch.res :
            i < j =>
                \/ lastSearch.res[i].score > lastSearch.res[j].score
                \/ /\ lastSearch.res[i].score = lastSearch.res[j].score
                   /\ lastSearch.res[i].crawled_at >= lastSearch.res[j].crawled_at

(***************************************************************************)
(* The tiers of search_sites                                               *)
(***************************************************************************)
\* the urls of a list of results
ResultUrls(res) == {res[i].url : i \in DOMAIN res}

\* C14: a search is answered by the first tier, in the order accelerated, degraded,
\* full scan, that has results, and by that tier alone; a failure of the index in the
\* accelerated or the degraded tier never fails the search, it leads to the next tier.
C14_FirstTierWithResults ==
    lastSearch.tier \notin {"none", "failed", "empty"} =>
        LET terms == Terms(lastSearch.q)
            matchWorks == ftsMode # "none" /\ FtsQueryOk(terms)
            rankWorks == matchWorks /\ ftsMode = "ranked"
            matched == MatchJoin(fts, sites, terms)
            degraded == DegradedResults(fts, sites, terms, DefaultLimit)
            scan == ScanResults(sites, terms, DefaultLimit)
        IN  /\ lastSearch.tier # "error"
            /\ IF rankWorks /\ matched # {}
               THEN /\ lastSearch.tier = "accelerated"
                    /\ ResultUrls(lastSearch.res) = {row.url : row \in matched}
                    /\ Len(lastSearch.res) = Cardinality(matched)
               ELSE IF matchWorks /\ degraded # <<>>
               THEN lastSearch.tier = "degraded" /\ lastSearch.res = degraded
               ELSE lastSearch.tier = "scan" /\ lastSearch.res = scan

(***************************************************************************)
(* The page GET of crawl_url                                               *)
(***************************************************************************)
\* C15: a page whose Content-Type header is empty or does not hold 'text/html' makes
\* crawl_url fail with UnsupportedContentType, whatever the extension of the URL; the
\* failure is of that kind, not a generic fetch failure, and no record is returned.
C15_UnsupportedContentType ==
    \A t \in Threads :
        (/\ thr[t].pc = "done"
         /\ thr[t].page.kind = "response"
         /\ thr[t].page.ctype = "" \/ ~Contains(thr[t].page.ctype, "text/html"))
        => thr[t].res = "UnsupportedContentType"

(***************************************************************************)
(* The snippet of crawl_url                                                *)
(***************************************************************************)
SnippetLimit == 500

MaxTextLen == 504

\* the first n characters of unit written over and over
RECURSIVE Fill(_, _)
Fill(unit, n) ==
    IF n <= 0 THEN ""
    ELSE IF n <= Len(unit) THEN SubSeq(unit, 1, n)
    ELSE LET half == Fill(unit, (n \div (2 * Len(unit))) * Len(unit))
         IN  IF half = "" THEN unit \o Fill(unit, n - Len(unit))
             ELSE LET twice == half \o half
                  IN  twice \o SubSeq(Fill(unit, Len(unit) + (n - Len(twice))),
                                      1, n - Len(twice))

\* the texts te.get_text() gives
FullTexts == {Fill(unit, n) : unit \in {"ab ", "x", "."}, n \in 0..MaxTextLen}

\* a snippet that cuts a text of 500 characters too
SnippetFrom500(fulltext) ==
    IF Len(fulltext) >= SnippetLimit
    THEN SubSeq(fulltext, 1, SnippetLimit) \o "..." ELSE fulltext

\* snippet = (fulltext[:500] + "...") if len(fulltext) > 500 else fulltext
Snippet(fulltext) ==
    IF Len(fulltext) > SnippetLimit
    THEN SubSeq(fulltext, 1, SnippetLimit) \o "..." ELSE fulltext

SnippetInit ==
    /\ sites = {}
    /\ fts = EmptyFts
    /\ ftsTotals = EmptyTotals
    /\ ftsMode = "ranked"
    /\ now = 0
    /\ deleted = {}
    /\ lastSearch = NoSearch
    /\ thr = [t \in Threads |-> IdleThread]
    /\ robots_cache = <<>>
    /\ robots_lock = 0
    /\ clock = 0
    /\ returned = <<>>
    /\ arg \in {[fulltext |-> f] : f \in FullTexts}
    /\ ret = NoCall

\* the snippet line of crawl_url
MakeSnippet ==
    /\ ~ret.done
    /\ "fulltext" \in DOMAIN arg
    /\ ret' = [done |-> TRUE, val |-> Snippet(arg.fulltext)]
    /\ UNCHANGED arg
    /\ UNCHANGED storeVars
    /\ UNCHANGED crawlVars

SnippetNext == MakeSnippet

SpecSnippet == SnippetInit /\ [][SnippetNext]_vars

\* C16: the snippet of a text of more than 500 characters is its first 500 characters
\* followed by an ellipsis; a text of at most 500 characters is its own snippet.
C16_SnippetTruncation ==
    (ret.done /\ "fulltext" \in DOMAIN arg) =>
        LET f == arg.fulltext
            sn == ret.val
        IN  /\ Len(f) > 500 =>
                /\ Len(sn) = 503
                /\ SubSeq(sn, 1, 500) = SubSeq(f, 1, 500)
                /\ SubSeq(sn, 501, 503) = "..."
            /\ Len(f) <= 500 => sn = f

\* a text of 501 characters has been cut, and one of 500 characters kept
C16_Witness ==
    /\ ret.done
    /\ "fulltext" \in DOMAIN arg
    /\ Len(arg.fulltext) = 501
    /\ Len(ret.val) = 503

(***************************************************************************)
(* The scorer of the degraded path and of the full scan                    *)
(***************************************************************************)
\* C17: the degraded path and the full scan score with one function, which tests the
\* lower-cased field against the lower-cased term: the results of a search answered
\* by either path are those the scorer of the full scan gives the same candidates,
\* and those the lower-cased query gives.
C17_SameScorerCaseInsensitive ==
    LET terms == Terms(lastSearch.q)
        candidates == Take(RowsById(MatchJoin(fts, sites, terms)), CandidateLimit)
    IN  /\ lastSearch.tier = "degraded" =>
              lastSearch.res = HeuristicResults(candidates, LowerAll(terms), DefaultLimit)
        /\ lastSearch.tier = "scan" =>
              lastSearch.res = ScanResults(sites, LowerAll(terms), DefaultLimit)

(***************************************************************************)
(* TextExtractor: the visible text of a page                               *)
(***************************************************************************)
MaxEvents == 5

\* self._skip_tags
SkipTags == {"script", "style", "noscript"}

\* the tags whose end adds a line break
BlockTags == {"p", "div", "br", "li", "h1", "h2", "h3", "h4", "h5", "h6"}

\* the events HTMLParser.feed calls the handlers with
Events ==
    {[kind |-> k, tag |-> tag, data |-> ""] :
        k \in {"start", "end"}, tag \in {"script", "style", "noscript", "p"}}
    \cup {[kind |-> "data", tag |-> "", data |-> " x "]}

\* TextExtractor.__init__
NewExtractor == [result |-> <<>>, _skip |-> FALSE, _last_tag |-> ""]

handle_starttag(self, tag) ==
    [self EXCEPT !._last_tag = Lower(tag),
                 !._skip = IF Lower(tag) \in SkipTags THEN TRUE ELSE @]

handle_endtag(self, tag) ==
    [self EXCEPT !._skip = IF Lower(tag) \in SkipTags THEN FALSE ELSE @,
                 !.result = IF Lower(tag) \in BlockTags THEN Append(@, "\n") ELSE @]

handle_data(self, data) ==
    IF ~self._skip /\ Strip(data) # ""
    THEN [self EXCEPT !.result = Append(@, Strip(data) \o " ")] ELSE self

RECURSIVE Concat(_)
\* ''.join(result)
Concat(parts) == IF parts = <<>> THEN "" ELSE Head(parts) \o Concat(Tail(parts))

RECURSIVE JoinSpace(_)
JoinSpace(words) ==
    IF words = <<>> THEN ""
    ELSE IF Len(words) = 1 THEN Head(words)
    ELSE Head(words) \o " " \o JoinSpace(Tail(words))

\* re.sub(r'\s+', ' ', ''.join(self.result)).strip()
get_text(self) == JoinSpace(SplitWs(Strip(Concat(self.result))))

RECURSIVE OpenSkip(_)
\* the script, style and noscript elements of a sequence of events that are still
\* open at its end, outermost first: an end tag closes the innermost open element of
\* its name, and nothing when there is none
OpenSkip(events) ==
    IF events = <<>> THEN <<>>
    ELSE LET before == OpenSkip(SubSeq(events, 1, Len(events) - 1))
             e == events[Len(events)]
             same == {i \in DOMAIN before : before[i] = e.tag}
             top == CHOOSE i \in same : \A j \in same : j <= i
         IN  IF e.tag \notin SkipTags THEN before
             ELSE IF e.kind = "start" THEN Append(before, e.tag)
             ELSE IF same = {} THEN before
             ELSE SubSeq(before, 1, top - 1) \o SubSeq(before, top + 1, Len(before))

ScanInit ==
    /\ sites = {}
    /\ fts = EmptyFts
    /\ ftsTotals = EmptyTotals
    /\ ftsMode = "ranked"
    /\ now = 0
    /\ deleted = {}
    /\ lastSearch = NoSearch
    /\ thr = [t \in Threads |-> IdleThread]
    /\ robots_cache = <<>>
    /\ robots_lock = 0
    /\ clock = 0
    /\ returned = <<>>
    /\ arg = [fed |-> <<>>]
    /\ ret = [done |-> FALSE, te |-> NewExtractor]

\* te.feed(text) calls the handler of the next event of the page
Feed(e) ==
    /\ ~ret.done
    /\ Len(arg.fed) < MaxEvents
    /\ arg' = [fed |-> Append(arg.fed, e)]
    /\ ret' = [ret EXCEPT !.te = IF e.kind = "start" THEN handle_starttag(@, e.tag)
                                 ELSE IF e.kind = "end" THEN handle_endtag(@, e.tag)
                                 ELSE handle_data(@, e.data)]
    /\ UNCHANGED storeVars
    /\ UNCHANGED crawlVars

\* fulltext = te.get_text()
GetText ==
    /\ ~ret.done
    /\ ret' = [done |-> TRUE, te |-> ret.te, val |-> get_text(ret.te)]
    /\ UNCHANGED arg
    /\ UNCHANGED storeVars
    /\ UNCHANGED crawlVars

ScanNext ==
    \/ \E e \in Events : Feed(e)
    \/ GetText

SpecScan == ScanInit /\ [][ScanNext]_vars

\* C18: a text event that comes while a script, style or noscript element is still
\* open adds nothing to the visible text, also when such elements are nested and an
\* inner one has been closed.
C18_NoTextInsideOpenSkip ==
    [][(/\ arg'.fed # arg.fed
        /\ arg'.fed[Len(arg'.fed)].kind = "data"
        /\ OpenSkip(arg.fed) # <<>>)
       => ret'.te.result = ret.te.result]_vars

(***************************************************************************)
(* The addresses of the page GET                                           *)
(***************************************************************************)
\* the addresses validate_url_for_fetch has tested for the crawl of thread t
ValidatedAddrs(t) ==
    IF NeedsResolution(thr[t].url.host)
    THEN {thr[t].answer.addrs[i] : i \in DOMAIN thr[t].answer.addrs}
    ELSE {StripPort(thr[t].url.host)}

\* C19: the page GET of a crawl is sent only to addresses that the validation of that
\* crawl has tested, none of them loopback, private or reserved, also when the name
\* resolves to another address at the time of the GET or the answer is a redirect.
C19_GetOnlyToValidatedPublicAddress ==
    \A t \in Threads :
        (thr[t].pc = "done" /\ thr[t].page.kind \in {"response", "HTTPError"}) =>
            \A i \in DOMAIN thr[t].page.conn :
                /\ ~IpIsPrivate(thr[t].page.conn[i])
                /\ thr[t].page.conn[i] \in ValidatedAddrs(t)

====
